---- MODULE Spec2Model ----
(***************************************************************************)
(* Model of the ChangeByteCode text tools.                                 *)
(*                                                                         *)
(* A Python str is a sequence of codepoints (integers), a bytes object a   *)
(* sequence of integers 0..255.  Every function of the source is an        *)
(* operator computed the way the source computes it; every call of a       *)
(* function is an action that takes its arguments from the state and       *)
(* stores what the call returns.                                           *)
(***************************************************************************)
EXTENDS Integers, Sequences, FiniteSets, TLC

VARIABLES
    tl_pc,        \* transform_line: "idle" | "call" | "done"
    tl_variant,   \* which of the three copies of transform_line is called
    tl_line,      \* its argument
    tl_out,       \* its return value
    csv_pc,        \* preset_csv_row: "idle" | "call" | "done"
    csv_values,    \* its arguments
    csv_delim,
    csv_neutralize,
    csv_strategy,
    csv_quotechar,
    csv_defused,   \* the cells after neutralize_excel_cell (v2 of each iteration)
    csv_safe_vals, \* the rendered fields (safe_vals)
    csv_out,       \* its return value
    fin_pc,        \* finalize_text_bytes: "idle" | "call" | "done"
    fin_arg_text,  \* its arguments
    fin_newline,
    fin_bom,
    fin_encoding,
    fin_text,      \* the local text after the line-ending step
    fin_status,    \* "none" | "ok" | the exception raised
    fin_data,      \* the bytes returned
    pt_pc,         \* process_text: the statement about to run, "idle" or "done"
    pt_raw,        \* its arguments
    pt_mode,
    pt_normalize,
    pt_replace_smart,
    pt_strip_zw,
    pt_strip_ctrl,
    pt_html_br,
    pt_csv_values,
    pt_csv_opts,   \* csv_delim, csv_neutralize, csv_strategy, quotechar
    pt_s,          \* its locals
    pt_zw_count,
    pt_ctrl_count,
    pt_out,
    pt_status,     \* "none" | "ok" | the exception raised
    pt_stages,     \* the stages that have run, in order
    w_pc,          \* the batch CSV write: the statement about to run, "idle" or "done"
    w_variant,     \* "write_csv" | "process_xlsx"
    w_headers,     \* the header row
    w_rows,        \* the data rows
    w_i,           \* rows written so far, the header row included
    w_file,        \* the bytes of the output file on disk
    w_buf,         \* the bytes held in the buffer of the handle opened "wb"
    w_fbin_open,   \* the handle opened "wb" is open
    w_fab_open,    \* the handle opened "ab", buffering=0 is open
    w_status,      \* "none" | "ok" | the exception raised
    app_file_path, \* App.file_path and file_type: "none", or the kind of file opened ("csv" | "xlsx")
    app_headers,   \* App.headers
    app_rows,      \* App.rows
    app_selection, \* the positions selected in the listbox (1 is the first column)
    app_new_headers, \* the locals of the process_and_save call that has just run
    app_new_rows,
    app_msg,       \* the message box shown by the handler that has just run
    app_out,       \* what has been saved for the file that is open: nothing, the bytes of a CSV, the sheet of a workbook
    g_input,       \* BytecodeGUI: the text of txt_input
    g_mode,        \* cmb_mode
    g_norm,        \* cmb_norm
    g_bom,         \* var_bom
    g_neutralize,  \* var_neutralize
    g_newline,     \* var_newline
    g_has_last,    \* the window has the attributes last_bytes and last_text
    g_last_bytes,
    g_last_text,
    g_output,      \* the text of txt_output
    g_meta_len,    \* lbl_meta: the number after "Bytes:"
    g_meta_sha,    \* lbl_meta: the bytes whose SHA-256 digest is shown
    g_file,        \* the exported file: whether it was written, and its bytes
    g_handler,     \* the handler that has just run
    g_msg          \* the message box it showed

tlVars == <<tl_pc, tl_variant, tl_line, tl_out>>

csvVars == <<csv_pc, csv_values, csv_delim, csv_neutralize, csv_strategy, csv_quotechar,
             csv_defused, csv_safe_vals, csv_out>>

finVars == <<fin_pc, fin_arg_text, fin_newline, fin_bom, fin_encoding, fin_text, fin_status, fin_data>>

ptArgs == <<pt_raw, pt_mode, pt_normalize, pt_replace_smart, pt_strip_zw, pt_strip_ctrl,
           pt_html_br, pt_csv_values, pt_csv_opts>>

ptVars == <<pt_pc, ptArgs, pt_s, pt_zw_count, pt_ctrl_count, pt_out, pt_status, pt_stages>>

wVars == <<w_pc, w_variant, w_headers, w_rows, w_i, w_file, w_buf, w_fbin_open, w_fab_open, w_status>>

appVars == <<app_file_path, app_headers, app_rows, app_selection, app_new_headers, app_new_rows,
             app_msg, app_out>>

guiOpts == <<g_input, g_mode, g_norm, g_bom, g_neutralize, g_newline>>

guiVars == <<guiOpts, g_has_last, g_last_bytes, g_last_text, g_output, g_meta_len, g_meta_sha,
             g_file, g_handler, g_msg>>

vars == <<tlVars, csvVars, finVars, ptVars, wVars, appVars, guiVars>>

(***************************************************************************)
(* Bounds of the model.                                                    *)
(***************************************************************************)
MaxLineLen == 3
MaxCellLen == 2
MaxCells == 1
MaxTextLen == 3
MaxRawLen == 3

(***************************************************************************)
(* str helpers, as CPython computes them.                                  *)
(***************************************************************************)
RECURSIVE Concat(_)
Concat(ss) == IF ss = <<>> THEN <<>> ELSE Head(ss) \o Concat(Tail(ss))

Contains(s, c) == \E i \in 1..Len(s) : s[i] = c

\* str.find for a single character: the first index, 0 when absent
Find(s, c) == IF Contains(s, c) THEN CHOOSE i \in 1..Len(s) : s[i] = c /\ \A j \in 1..(i-1) : s[j] # c
              ELSE 0

\* str.isspace() of one codepoint (the Unicode White_Space set of CPython)
IsSpace(c) == \/ c \in 9..13
              \/ c \in 28..32
              \/ c \in {133, 160, 5760, 8232, 8233, 8239, 8287, 12288}
              \/ c \in 8192..8202

RECURSIVE lstrip(_)
lstrip(s) == IF s # <<>> /\ IsSpace(Head(s)) THEN lstrip(Tail(s)) ELSE s

RECURSIVE rstrip(_)
rstrip(s) == IF s # <<>> /\ IsSpace(s[Len(s)]) THEN rstrip(SubSeq(s, 1, Len(s) - 1)) ELSE s

strip(s) == rstrip(lstrip(s))

\* s.split(c, 1) when c occurs in s: the text before and after the first c
SplitHead(s, c) == SubSeq(s, 1, Find(s, c) - 1)
SplitTail(s, c) == SubSeq(s, Find(s, c) + 1, Len(s))

\* re.sub(pattern, "", s) for a character-class pattern
RECURSIVE RemoveAll(_, _)
RemoveAll(s, class) ==
    IF s = <<>> THEN <<>>
    ELSE IF Head(s) \in class THEN RemoveAll(Tail(s), class)
    ELSE <<Head(s)>> \o RemoveAll(Tail(s), class)

(***************************************************************************)
(* unicodedata.normalize on the repertoire the model draws its texts from: *)
(* ASCII, the no-break spaces, the fullwidth colon, the ellipsis, the      *)
(* mathematical bold letters and digits, e-acute and the combining acute,  *)
(* and codepoints that no form changes.                                    *)
(***************************************************************************)
CompatMap(c) ==
    IF c \in {160, 8199, 8239} THEN <<32>>
    ELSE IF c = 65306 THEN <<58>>
    ELSE IF c = 8230 THEN <<46, 46, 46>>
    ELSE IF c = 8243 THEN <<8242, 8242>>
    ELSE IF c \in 119808..119833 THEN <<65 + (c - 119808)>>
    ELSE IF c \in 119834..119859 THEN <<97 + (c - 119834)>>
    ELSE IF c \in 120782..120791 THEN <<48 + (c - 120782)>>
    ELSE <<c>>

CanonDecomp(c) == IF c = 233 THEN <<101, 769>> ELSE <<c>>

RECURSIVE Decompose(_, _)
Decompose(s, compat) ==
    IF s = <<>> THEN <<>>
    ELSE LET d == IF compat THEN CompatMap(Head(s)) ELSE <<Head(s)>>
         IN  Concat([i \in 1..Len(d) |-> CanonDecomp(d[i])]) \o Decompose(Tail(s), compat)

RECURSIVE Compose(_)
Compose(s) ==
    IF Len(s) >= 2 /\ s[1] = 101 /\ s[2] = 769 THEN <<233>> \o Compose(Tail(Tail(s)))
    ELSE IF s = <<>> THEN <<>>
    ELSE <<Head(s)>> \o Compose(Tail(s))

normalize(form, s) ==
    CASE form = "NFC"  -> Compose(Decompose(s, FALSE))
      [] form = "NFD"  -> Decompose(s, FALSE)
      [] form = "NFKC" -> Compose(Decompose(s, TRUE))
      [] form = "NFKD" -> Decompose(s, TRUE)

(***************************************************************************)
(* The header-bold wrappers: bytecode_batch.py ("batch"), the single-text  *)
(* GUI ("gui") and bytecode_gui_batch.py ("gui_batch").                    *)
(***************************************************************************)
Variants == {"batch", "gui", "gui_batch"}

\* None, as an argument or a return value
None == <<-1>>

SMART_SPACES == {160, 8199, 8239}

ZERO_WIDTH_BIDI == {8203, 8204, 8205, 8288, 65279, 8206, 8207} \cup (8234..8238) \cup (8294..8297)

CTRL == (0..8) \cup {11, 12} \cup (14..31) \cup (127..159)

\* s.translate(str.maketrans(SMART_SPACES))
TranslateSpaces(s) == [i \in 1..Len(s) |-> IF s[i] \in SMART_SPACES THEN 32 ELSE s[i]]

clean_text(s) == RemoveAll(RemoveAll(TranslateSpaces(normalize("NFKC", s)), ZERO_WIDTH_BIDI), CTRL)

\* the digits rendered bold whatever the variant
BoldChar_AlwaysDigits(o, digits) ==
    IF 65 <= o /\ o <= 90 THEN 119808 + (o - 65)
    ELSE IF 97 <= o /\ o <= 122 THEN 119834 + (o - 97)
    ELSE IF 48 <= o /\ o <= 57 THEN 120782 + (o - 48)
    ELSE o

BoldChar(o, digits) ==
    IF 65 <= o /\ o <= 90 THEN 119808 + (o - 65)
    ELSE IF 97 <= o /\ o <= 122 THEN 119834 + (o - 97)
    ELSE IF digits /\ 48 <= o /\ o <= 57 THEN 120782 + (o - 48)
    ELSE o

\* bytecode_gui_batch.py maps the digits too, the other two copies do not
BoldsDigits(variant) == variant = "gui_batch"

to_math_bold(variant, s) == [i \in 1..Len(s) |-> BoldChar(s[i], BoldsDigits(variant))]

MARK_OPEN == <<9989, 12304, 32>>
MARK_CLOSE == <<12305>>

\* what the early return gives: `if not line: return line` (batch),
\* `if not line: return ""` (single-text window), `if line is None: return ""`
\* (column processor, which goes on with an empty str)
EmptyReturn(variant, line) == IF variant = "batch" THEN line ELSE <<>>

\* body.strip() in place of body.lstrip()
transform_line_StripBody(variant, line) ==
    IF line = None \/ (line = <<>> /\ variant # "gui_batch") THEN EmptyReturn(variant, line)
    ELSE LET s == clean_text(line) IN
         IF ~Contains(s, 58)
         THEN MARK_OPEN \o to_math_bold(variant, strip(s)) \o MARK_CLOSE
         ELSE LET head == strip(SplitHead(s, 58))
                  body == SplitTail(s, 58)
              IN  MARK_OPEN \o to_math_bold(variant, head) \o MARK_CLOSE \o <<58, 32>> \o strip(body)

\* the line without a colon wrapped untrimmed
transform_line_NoStrip(variant, line) ==
    IF line = None \/ (line = <<>> /\ variant # "gui_batch") THEN EmptyReturn(variant, line)
    ELSE LET s == clean_text(line) IN
         IF ~Contains(s, 58)
         THEN MARK_OPEN \o to_math_bold(variant, s) \o MARK_CLOSE
         ELSE LET head == strip(SplitHead(s, 58))
                  body == SplitTail(s, 58)
              IN  MARK_OPEN \o to_math_bold(variant, head) \o MARK_CLOSE \o <<58, 32>> \o lstrip(body)

transform_line(variant, line) ==
    IF line = None \/ (line = <<>> /\ variant # "gui_batch") THEN EmptyReturn(variant, line)
    ELSE LET s == clean_text(line) IN
         IF ~Contains(s, 58)
         THEN MARK_OPEN \o to_math_bold(variant, strip(s)) \o MARK_CLOSE
         ELSE LET head == strip(SplitHead(s, 58))
                  body == SplitTail(s, 58)
              IN  MARK_OPEN \o to_math_bold(variant, head) \o MARK_CLOSE \o <<58, 32>> \o lstrip(body)

(***************************************************************************)
(* The CSV preset of bytecode_generator.py.                                *)
(***************************************************************************)
StartsWith(s, c) == s # <<>> /\ s[1] = c
EndsWith(s, c) == s # <<>> /\ s[Len(s)] = c

\* s.replace(c, c * 2) for a single character c
RECURSIVE DoubleChar(_, _)
DoubleChar(s, c) ==
    IF s = <<>> THEN <<>>
    ELSE (IF Head(s) = c THEN <<c, c>> ELSE <<Head(s)>>) \o DoubleChar(Tail(s), c)

\* delimiter.join(vals)
RECURSIVE Join(_, _)
Join(delim, vals) ==
    IF vals = <<>> THEN <<>>
    ELSE IF Len(vals) = 1 THEN Head(vals)
    ELSE Head(vals) \o <<delim>> \o Join(delim, Tail(vals))

\* = + - @ tab CR
EXCEL_RISKY_PREFIX == {61, 43, 45, 64, 9, 13}

\* a leading carriage return not treated as risky
neutralize_excel_cell_NoCR(cell, strategy) ==
    IF cell = <<>> THEN cell
    ELSE IF cell[1] \in EXCEL_RISKY_PREFIX \ {13}
         THEN (IF strategy = "apostrophe" THEN <<39>> \o cell ELSE <<32>> \o cell)
    ELSE cell

neutralize_excel_cell(cell, strategy) ==
    IF cell = <<>> THEN cell
    ELSE IF cell[1] \in EXCEL_RISKY_PREFIX
         THEN (IF strategy = "apostrophe" THEN <<39>> \o cell ELSE <<32>> \o cell)
    ELSE cell

csv_quote_cell(cell, quotechar) ==
    LET need_quote == \/ \E c \in {10, 13, quotechar, 44} : Contains(cell, c)
                      \/ StartsWith(cell, 32)
                      \/ EndsWith(cell, 32)
    IN  IF need_quote THEN <<quotechar>> \o DoubleChar(cell, quotechar) \o <<quotechar>>
        ELSE cell

\* v2 of each loop iteration of preset_csv_row
DefusedCells(values, neutralize, strategy) ==
    [i \in 1..Len(values) |-> IF neutralize THEN neutralize_excel_cell(values[i], strategy)
                              ELSE values[i]]

\* safe_vals at the end of the loop of preset_csv_row
SafeVals(values, neutralize, strategy, quotechar) ==
    [i \in 1..Len(values) |->
        csv_quote_cell(DefusedCells(values, neutralize, strategy)[i], quotechar)]

preset_csv_row(values, delimiter, neutralize, strategy, quotechar) ==
    Join(delimiter, SafeVals(values, neutralize, strategy, quotechar))

(***************************************************************************)
(* Encoding and finalization (bytecode_generator.py).                      *)
(***************************************************************************)
\* str.lower() on ASCII names
lower(s) == [i \in 1..Len(s) |-> IF s[i] \in 65..90 THEN s[i] + 32 ELSE s[i]]

\* s.replace(old, new) for a single character old
RECURSIVE ReplaceChar(_, _, _)
ReplaceChar(s, old, new) ==
    IF s = <<>> THEN <<>>
    ELSE (IF Head(s) = old THEN new ELSE <<Head(s)>>) \o ReplaceChar(Tail(s), old, new)

\* s.replace(old, new) for a two-character old: one scan from the left,
\* the replacement text is not scanned again
RECURSIVE ReplacePair(_, _, _)
ReplacePair(s, old, new) ==
    IF Len(s) < 2 THEN s
    ELSE IF s[1] = old[1] /\ s[2] = old[2] THEN new \o ReplacePair(Tail(Tail(s)), old, new)
    ELSE <<Head(s)>> \o ReplacePair(Tail(s), old, new)

NameLF == <<108, 102>>
NameCRLF == <<99, 114, 108, 102>>

\* the crlf branch without the two normalizing replacements
ConvertNewlines_ExpandOnly(text, newline) ==
    IF lower(newline) = NameCRLF
    THEN [ok |-> TRUE, text |-> ReplaceChar(text, 10, <<13, 10>>)]
    ELSE IF lower(newline) = NameLF
    THEN [ok |-> TRUE, text |-> ReplaceChar(ReplacePair(text, <<13, 10>>, <<10>>), 13, <<10>>)]
    ELSE [ok |-> FALSE, text |-> text]

\* the line-ending step; ok is FALSE where the code raises ValueError
ConvertNewlines(text, newline) ==
    IF lower(newline) = NameCRLF
    THEN [ok |-> TRUE,
          text |-> ReplaceChar(ReplaceChar(ReplacePair(text, <<13, 10>>, <<10>>), 13, <<10>>),
                               10, <<13, 10>>)]
    ELSE IF lower(newline) = NameLF
    THEN [ok |-> TRUE, text |-> ReplaceChar(ReplacePair(text, <<13, 10>>, <<10>>), 13, <<10>>)]
    ELSE [ok |-> FALSE, text |-> text]

NameUTF8 == <<117, 116, 102, 56>>

\* the codec str.encode looks up for a name: the name in lower case with
\* "-" read as "_", then the alias table
Codec(encoding) ==
    LET n == ReplaceChar(lower(encoding), 45, <<95>>) IN
    IF n \in {<<117, 116, 102, 95, 56>>, NameUTF8} THEN "utf-8"
    ELSE IF n \in {<<108, 97, 116, 105, 110, 95, 49>>, <<108, 97, 116, 105, 110, 49>>} THEN "latin-1"
    ELSE IF n = <<97, 115, 99, 105, 105>> THEN "ascii"
    ELSE "unknown"

\* the UTF-8 bytes of one codepoint; <<>> for a surrogate, which cannot be encoded
Utf8Bytes(c) ==
    IF c < 128 THEN <<c>>
    ELSE IF c < 2048 THEN <<192 + (c \div 64), 128 + (c % 64)>>
    ELSE IF c \in 55296..57343 THEN <<>>
    ELSE IF c < 65536 THEN <<224 + (c \div 4096), 128 + ((c \div 64) % 64), 128 + (c % 64)>>
    ELSE <<240 + (c \div 262144), 128 + ((c \div 4096) % 64), 128 + ((c \div 64) % 64), 128 + (c % 64)>>

\* the bytes of one codepoint under a codec; <<>> when it has none
CodecBytes(codec, c) ==
    CASE codec = "utf-8"   -> Utf8Bytes(c)
      [] codec = "latin-1" -> IF c < 256 THEN <<c>> ELSE <<>>
      [] codec = "ascii"   -> IF c < 128 THEN <<c>> ELSE <<>>

\* text.encode(encoding): the bytes, or the exception raised
encode(text, encoding) ==
    LET codec == Codec(encoding) IN
    IF codec = "unknown" THEN [status |-> "LookupError", data |-> <<>>]
    ELSE IF \E i \in 1..Len(text) : CodecBytes(codec, text[i]) = <<>>
         THEN [status |-> "UnicodeEncodeError", data |-> <<>>]
    ELSE [status |-> "ok", data |-> Concat([i \in 1..Len(text) |-> CodecBytes(codec, text[i])])]

BOM == <<239, 187, 191>>

\* the BOM written for every UTF-8 name, requested or not
finalize_text_bytes_AlwaysBom(text, newline, bom, encoding) ==
    LET nl == ConvertNewlines(text, newline) IN
    IF ~nl.ok THEN [status |-> "ValueError", text |-> text, data |-> <<>>]
    ELSE LET enc == encode(nl.text, encoding) IN
         IF enc.status # "ok" THEN [status |-> enc.status, text |-> nl.text, data |-> <<>>]
         ELSE IF ReplaceChar(lower(encoding), 45, <<>>) = NameUTF8
              THEN [status |-> "ok", text |-> nl.text, data |-> BOM \o enc.data]
         ELSE [status |-> "ok", text |-> nl.text, data |-> enc.data]

finalize_text_bytes(text, newline, bom, encoding) ==
    LET nl == ConvertNewlines(text, newline) IN
    IF ~nl.ok THEN [status |-> "ValueError", text |-> text, data |-> <<>>]
    ELSE LET enc == encode(nl.text, encoding) IN
         IF enc.status # "ok" THEN [status |-> enc.status, text |-> nl.text, data |-> <<>>]
         ELSE IF bom /\ ReplaceChar(lower(encoding), 45, <<>>) = NameUTF8
              THEN [status |-> "ok", text |-> nl.text, data |-> BOM \o enc.data]
         ELSE [status |-> "ok", text |-> nl.text, data |-> enc.data]

(***************************************************************************)
(* Normalization, cleaning and the presets of bytecode_generator.py.       *)
(***************************************************************************)
\* str.upper() on ASCII names
upper(s) == [i \in 1..Len(s) |-> IF s[i] \in 97..122 THEN s[i] - 32 ELSE s[i]]

NameNFC == <<78, 70, 67>>
NameNFD == <<78, 70, 68>>
NameNFKC == <<78, 70, 75, 67>>
NameNFKD == <<78, 70, 75, 68>>

normalize_text(s, form) ==
    LET f == upper(form) IN
    IF f = NameNFC THEN normalize("NFC", s)
    ELSE IF f = NameNFD THEN normalize("NFD", s)
    ELSE IF f = NameNFKC THEN normalize("NFKC", s)
    ELSE IF f = NameNFKD THEN normalize("NFKD", s)
    ELSE s

SMART_PUNCT_MAP(c) ==
    IF c \in {8216, 8217, 8242} THEN <<39>>
    ELSE IF c \in {8220, 8221, 8243} THEN <<34>>
    ELSE IF c \in {8210, 8211, 8212, 8722} THEN <<45>>
    ELSE IF c = 8230 THEN <<46, 46, 46>>
    ELSE IF c \in {160, 8199, 8239} THEN <<32>>
    ELSE <<c>>

replace_smart_punct(s) == Concat([i \in 1..Len(s) |-> SMART_PUNCT_MAP(s[i])])

ZW_BIDI_PATTERN == {8203, 8204, 8205, 8288, 65279, 8206, 8207, 8234, 8235, 8236, 8237, 8238,
                    8294, 8295, 8296, 8297}

CTRL_PATTERN == (0..8) \cup {11, 12} \cup (14..31) \cup (127..159)

\* the control pattern written as \x00-\x1F, tab, LF and CR included
strip_zero_width_and_controls_AllC0(s) ==
    LET before == Len(s)
        s1 == RemoveAll(s, ZW_BIDI_PATTERN)
        after_zw == Len(s1)
        s2 == RemoveAll(s1, (0..31) \cup (127..159))
        after_ctrl == Len(s2)
    IN  [s |-> s2, zw_removed |-> before - after_zw, ctrl_removed |-> after_zw - after_ctrl]

strip_zero_width_and_controls(s) ==
    LET before == Len(s)
        s1 == RemoveAll(s, ZW_BIDI_PATTERN)
        after_zw == Len(s1)
        s2 == RemoveAll(s1, CTRL_PATTERN)
        after_ctrl == Len(s2)
    IN  [s |-> s2, zw_removed |-> before - after_zw, ctrl_removed |-> after_zw - after_ctrl]

\* unicodedata.combining(ch) != 0, on the repertoire
IsCombining(c) == c \in 768..879

RECURSIVE FoldChars(_)
FoldChars(s) ==
    IF s = <<>> THEN <<>>
    ELSE (IF IsCombining(Head(s)) THEN <<>>
          ELSE IF Head(s) < 128 THEN <<Head(s)>>
          ELSE IF Head(s) = 176 THEN <<32, 100, 101, 103, 114, 101, 101, 115>>
          ELSE <<>>) \o FoldChars(Tail(s))

ascii_fold(s) == FoldChars(normalize("NFKD", s))

preset_plain(s) == s

preset_ascii(s) == ascii_fold(s)

\* html.escape(s, quote=True)
HtmlEscapeChar(c) ==
    IF c = 38 THEN <<38, 97, 109, 112, 59>>
    ELSE IF c = 60 THEN <<38, 108, 116, 59>>
    ELSE IF c = 62 THEN <<38, 103, 116, 59>>
    ELSE IF c = 34 THEN <<38, 113, 117, 111, 116, 59>>
    ELSE IF c = 39 THEN <<38, 35, 120, 50, 55, 59>>
    ELSE <<c>>

html_escape(s) == Concat([i \in 1..Len(s) |-> HtmlEscapeChar(s[i])])

\* the <br> inserted before escaping instead of after it
preset_html_BrFirst(s, br) ==
    IF br THEN html_escape(ReplaceChar(s, 10, <<60, 98, 114, 62, 10>>)) ELSE html_escape(s)

preset_html(s, br) ==
    IF br THEN ReplaceChar(html_escape(s), 10, <<60, 98, 114, 62, 10>>) ELSE html_escape(s)

HexDigit(n) == IF n < 10 THEN 48 + n ELSE 97 + (n - 10)

\* the backslash left as it is
JsonEscapeChar_RawBackslash(c) ==
    IF c = 34 THEN <<92, 34>>
    ELSE IF c = 10 THEN <<92, 110>>
    ELSE IF c = 13 THEN <<92, 114>>
    ELSE IF c = 9 THEN <<92, 116>>
    ELSE IF c = 8 THEN <<92, 98>>
    ELSE IF c = 12 THEN <<92, 102>>
    ELSE IF c < 32 THEN <<92, 117, 48, 48, HexDigit(c \div 16), HexDigit(c % 16)>>
    ELSE <<c>>

\* the escape json.dumps(ensure_ascii=False) writes for one codepoint
JsonEscapeChar(c) ==
    IF c = 34 THEN <<92, 34>>
    ELSE IF c = 92 THEN <<92, 92>>
    ELSE IF c = 10 THEN <<92, 110>>
    ELSE IF c = 13 THEN <<92, 114>>
    ELSE IF c = 9 THEN <<92, 116>>
    ELSE IF c = 8 THEN <<92, 98>>
    ELSE IF c = 12 THEN <<92, 102>>
    ELSE IF c < 32 THEN <<92, 117, 48, 48, HexDigit(c \div 16), HexDigit(c % 16)>>
    ELSE <<c>>

preset_json(s) == <<34>> \o Concat([i \in 1..Len(s) |-> JsonEscapeChar(s[i])]) \o <<34>>

mark_header_bold(s, mode) ==
    IF ~Contains(s, 58) THEN s
    ELSE LET head == SplitHead(s, 58)
             tail == SplitTail(s, 58)
         IN  IF mode = "html"
             THEN <<60, 115, 116, 114, 111, 110, 103, 62>> \o head
                      \o <<60, 47, 115, 116, 114, 111, 110, 103, 62, 58>> \o tail
             ELSE <<42, 42>> \o head \o <<42, 42, 58>> \o tail

Modes == {"plain", "ascii", "html", "csv", "json"}

\* csv_values=None
NoValues == <<None>>

\* the preset branch of process_text for a mode it knows
\* the cells cleaned like the text before the CSV preset
ApplyPreset_CleansCells(mode, s, html_br, values, opts) ==
    CASE mode = "plain" -> preset_plain(s)
      [] mode = "ascii" -> preset_ascii(s)
      [] mode = "html"  -> preset_html(s, html_br)
      [] mode = "csv"   ->
            IF values # NoValues
            THEN preset_csv_row([i \in 1..Len(values) |-> strip_zero_width_and_controls(values[i]).s],
                                opts.delim, opts.neutralize, opts.strategy, opts.quotechar)
            ELSE preset_csv_row(<<s>>, opts.delim, opts.neutralize, opts.strategy, opts.quotechar)
      [] mode = "json"  -> preset_json(s)

ApplyPreset(mode, s, html_br, values, opts) ==
    CASE mode = "plain" -> preset_plain(s)
      [] mode = "ascii" -> preset_ascii(s)
      [] mode = "html"  -> preset_html(s, html_br)
      [] mode = "csv"   ->
            IF values # NoValues
            THEN preset_csv_row(values, opts.delim, opts.neutralize, opts.strategy, opts.quotechar)
            ELSE preset_csv_row(<<s>>, opts.delim, opts.neutralize, opts.strategy, opts.quotechar)
      [] mode = "json"  -> preset_json(s)

(***************************************************************************)
(* Bounded sets of texts.                                                  *)
(***************************************************************************)
SeqsUpTo(S, n) == UNION {[1..k -> S] : k \in 0..n}

\* A z 1 : space NBSP ZWSP BEL fullwidth-colon closing-bracket
LineAlphabet == {65, 122, 49, 58, 32, 160, 8203, 7, 65306, 12305}

Lines == SeqsUpTo(LineAlphabet, MaxLineLen)

\* a , ; " space = LF CR
CellAlphabet == {97, 44, 59, 34, 32, 61, 10, 13}

Cells == SeqsUpTo(CellAlphabet, MaxCellLen)

Rows == SeqsUpTo(Cells, MaxCells)

Delimiters == {44, 59}

QuoteChars == {34, 39}

Strategies == {"apostrophe", "space"}

\* a LF CR e-acute check-mark bold-A: one to four bytes in UTF-8
TextAlphabet == {97, 10, 13, 233, 9989, 119808}

Texts == SeqsUpTo(TextAlphabet, MaxTextLen)

\* lf crlf CRLF cr
Newlines == {NameLF, NameCRLF, <<67, 82, 76, 70>>, <<99, 114>>}

\* utf-8 UTF-8 utf8 utf_8 latin-1 ascii bogus
Encodings == {<<117, 116, 102, 45, 56>>, <<85, 84, 70, 45, 56>>, NameUTF8, <<117, 116, 102, 95, 56>>,
              <<108, 97, 116, 105, 110, 45, 49>>, <<97, 115, 99, 105, 105>>,
              <<98, 111, 103, 117, 115>>}

(***************************************************************************)
(* Calls of transform_line.                                                *)
(***************************************************************************)
WIdle ==
    /\ w_pc = "idle"
    /\ w_variant = "write_csv"
    /\ w_headers = <<>>
    /\ w_rows = <<>>
    /\ w_i = 0
    /\ w_file = <<>>
    /\ w_buf = <<>>
    /\ w_fbin_open = FALSE
    /\ w_fab_open = FALSE
    /\ w_status = "none"

AppIdle ==
    /\ app_file_path = "none"
    /\ app_headers = <<>>
    /\ app_rows = <<>>
    /\ app_selection = {}
    /\ app_new_headers = <<>>
    /\ app_new_rows = <<>>
    /\ app_msg = "none"
    /\ app_out = [kind |-> "none"]

GuiIdle ==
    /\ g_input = <<>>
    /\ g_mode = "plain"
    /\ g_norm = <<78, 70, 75, 67>>
    /\ g_bom = FALSE
    /\ g_neutralize = TRUE
    /\ g_newline = <<108, 102>>
    /\ g_has_last = FALSE
    /\ g_last_bytes = <<>>
    /\ g_last_text = <<>>
    /\ g_output = <<>>
    /\ g_meta_len = 0
    /\ g_meta_sha = None
    /\ g_file = [written |-> FALSE, bytes |-> <<>>]
    /\ g_handler = "none"
    /\ g_msg = "none"

\* no file is written, no window is open
OthersIdle == WIdle /\ AppIdle /\ GuiIdle

TlIdle == tl_pc = "idle" /\ tl_variant = "batch" /\ tl_line = <<>> /\ tl_out = <<>>

CsvIdle ==
    /\ csv_pc = "idle"
    /\ csv_values = <<>>
    /\ csv_delim = 44
    /\ csv_neutralize = TRUE
    /\ csv_strategy = "apostrophe"
    /\ csv_quotechar = 34
    /\ csv_defused = <<>>
    /\ csv_safe_vals = <<>>
    /\ csv_out = <<>>

\* a : < " ZWSP em-dash
RawAlphabet == {97, 58, 60, 34, 8203, 8212}

Raws == SeqsUpTo(RawAlphabet, MaxRawLen)

\* NFKC NONE nfd NFX
Forms == {NameNFKC, <<78, 79, 78, 69>>, <<110, 102, 100>>, <<78, 70, 88>>}

DefaultCsvOpts == [delim |-> 44, neutralize |-> TRUE, strategy |-> "apostrophe", quotechar |-> 34]

PtIdle ==
    /\ pt_pc = "idle"
    /\ pt_raw = <<>>
    /\ pt_mode = "plain"
    /\ pt_normalize = NameNFKC
    /\ pt_replace_smart = TRUE
    /\ pt_strip_zw = TRUE
    /\ pt_strip_ctrl = TRUE
    /\ pt_html_br = FALSE
    /\ pt_csv_values = NoValues
    /\ pt_csv_opts = DefaultCsvOpts
    /\ pt_s = <<>>
    /\ pt_zw_count = 0
    /\ pt_ctrl_count = 0
    /\ pt_out = <<>>
    /\ pt_status = "none"
    /\ pt_stages = <<>>

FinIdle ==
    /\ fin_pc = "idle"
    /\ fin_arg_text = <<>>
    /\ fin_newline = NameLF
    /\ fin_bom = FALSE
    /\ fin_encoding = <<117, 116, 102, 45, 56>>
    /\ fin_text = <<>>
    /\ fin_status = "none"
    /\ fin_data = <<>>

InitBold ==
    /\ OthersIdle
    /\ tl_pc = "call"
    /\ tl_variant \in Variants
    /\ tl_line \in Lines \cup {None}
    /\ tl_out = <<>>
    /\ CsvIdle
    /\ FinIdle
    /\ PtIdle

TransformLine(variant) ==
    /\ tl_pc = "call"
    /\ tl_variant = variant
    /\ tl_out' = transform_line(variant, tl_line)
    /\ tl_pc' = "done"
    /\ UNCHANGED <<tl_variant, tl_line>>
    /\ UNCHANGED <<csvVars, finVars, ptVars, wVars, appVars, guiVars>>

TransformLineBatch == TransformLine("batch")
TransformLineGui == TransformLine("gui")
TransformLineGuiBatch == TransformLine("gui_batch")

NextBold == TransformLineBatch \/ TransformLineGui \/ TransformLineGuiBatch

SpecBold == InitBold /\ [][NextBold]_vars

(***************************************************************************)
(* Properties of transform_line.                                           *)
(***************************************************************************)
\* the first index at which sub occurs in s, 0 when it does not occur
FirstOccurrence(s, sub) ==
    LET At(k) == k + Len(sub) - 1 <= Len(s) /\ SubSeq(s, k, k + Len(sub) - 1) = sub
    IN  IF \E k \in 1..Len(s) : At(k)
        THEN CHOOSE k \in 1..Len(s) : At(k) /\ \A j \in 1..(k-1) : ~At(j)
        ELSE 0

\* s without its longest prefix of whitespace
WithoutLeadingSpace(s) ==
    LET n == CHOOSE k \in 0..Len(s) : /\ \A i \in 1..k : IsSpace(s[i])
                                      /\ (k < Len(s) => ~IsSpace(s[k+1]))
    IN  SubSeq(s, n + 1, Len(s))

\* s without its longest prefix and its longest suffix of whitespace
Trimmed(s) ==
    LET t == WithoutLeadingSpace(s)
        n == CHOOSE k \in 0..Len(t) : /\ \A i \in (k+1)..Len(t) : IsSpace(t[i])
                                      /\ (k > 0 => ~IsSpace(t[k]))
    IN  SubSeq(t, 1, n)

\* the part of s after its first colon
AfterFirstColon(s) ==
    LET p == CHOOSE i \in 1..Len(s) : s[i] = 58 /\ \A j \in 1..(i-1) : s[j] # 58
    IN  SubSeq(s, p + 1, Len(s))

BeforeFirstColon(s) ==
    LET p == CHOOSE i \in 1..Len(s) : s[i] = 58 /\ \A j \in 1..(i-1) : s[j] # 58
    IN  SubSeq(s, 1, p - 1)

CloseColonSpace == <<12305, 58, 32>>

TlCleaned == clean_text(tl_line)

TlCalledOnText == tl_pc = "done" /\ tl_line # None

\* C8: when the cleaned text contains a colon, the output contains the
\* closing marker immediately followed by ": ", and what follows it is the
\* part of the cleaned text after its first colon with only the leading
\* whitespace removed.
C8_BodyAfterFirstColon ==
    (TlCalledOnText /\ Contains(TlCleaned, 58)) =>
        LET k == FirstOccurrence(tl_out, CloseColonSpace)
        IN  /\ k > 0
            /\ SubSeq(tl_out, k + 3, Len(tl_out)) = WithoutLeadingSpace(AfterFirstColon(TlCleaned))

\* a call whose body has leading whitespace and a later colon
C8_Witness ==
    /\ TlCalledOnText
    /\ tl_line = <<58, 32, 58>>
    /\ tl_out = MARK_OPEN \o MARK_CLOSE \o <<58, 32, 58>>

IsUpper(c) == c \in 65..90
IsLower(c) == c \in 97..122
IsDigit(c) == c \in 48..57

\* the codepoints the variant's bold rendering replaces
IsBoldTarget(variant, c) == IsUpper(c) \/ IsLower(c) \/ (variant = "gui_batch" /\ IsDigit(c))

\* out is text with every target replaced by its constant-offset bold codepoint
IsBoldRendering(variant, text, out) ==
    /\ Len(out) = Len(text)
    /\ \A i \in 1..Len(text) :
          /\ IsUpper(text[i]) => out[i] = text[i] + 119743
          /\ IsLower(text[i]) => out[i] = text[i] + 119737
          /\ (IsDigit(text[i]) /\ variant = "gui_batch") => out[i] = text[i] + 120734
          /\ ~IsBoldTarget(variant, text[i]) => out[i] = text[i]

\* out is opening marker, bold rendering of text, closing marker
IsWrappedBold(variant, text, out) ==
    /\ Len(out) = Len(text) + 4
    /\ SubSeq(out, 1, 3) = <<9989, 12304, 32>>
    /\ out[Len(out)] = 12305
    /\ IsBoldRendering(variant, text, SubSeq(out, 4, Len(out) - 1))

\* C9 as claimed: every input without a colon, the empty string included,
\* comes back as opening marker, bold trimmed text, closing marker.
C9_Original ==
    (TlCalledOnText /\ ~Contains(tl_line, 58)) =>
        IsWrappedBold(tl_variant, Trimmed(TlCleaned), tl_out)

\* C9 as amended: every non-empty input whose cleaned text has no colon
\* comes back as opening marker, bold trimmed cleaned text, closing marker;
\* the empty string comes back as the empty string from the two copies that
\* return early on an empty line, and as the two markers around nothing
\* from the copy of the column processor, which returns early on None only.
C9_NoColonWrapped ==
    /\ (TlCalledOnText /\ tl_line # <<>> /\ ~Contains(TlCleaned, 58)) =>
           IsWrappedBold(tl_variant, Trimmed(TlCleaned), tl_out)
    /\ (TlCalledOnText /\ tl_line = <<>>) =>
           tl_out = (IF tl_variant = "gui_batch" THEN MARK_OPEN \o MARK_CLOSE ELSE <<>>)

\* an input with leading whitespace whose letter and digit are rendered
C9_Witness ==
    /\ TlCalledOnText
    /\ tl_variant = "gui_batch"
    /\ tl_line = <<32, 65, 49>>
    /\ tl_out = <<9989, 12304, 32, 119808, 120783, 12305>>

\* the codepoints of s the variant's bold rendering does not replace, in order
RECURSIVE NonTargets(_, _)
NonTargets(variant, s) ==
    IF s = <<>> THEN <<>>
    ELSE IF IsBoldTarget(variant, Head(s)) THEN NonTargets(variant, Tail(s))
    ELSE <<Head(s)>> \o NonTargets(variant, Tail(s))

\* a occurs in b as a subsequence
RECURSIVE IsSubsequence(_, _)
IsSubsequence(a, b) ==
    IF a = <<>> THEN TRUE
    ELSE IF b = <<>> THEN FALSE
    ELSE IF Head(a) = Head(b) THEN IsSubsequence(Tail(a), Tail(b))
    ELSE IsSubsequence(a, Tail(b))

\* C10 as claimed: every codepoint of the input outside the replaced ranges
\* appears unchanged and in the same relative order in the output.
C10_Original ==
    TlCalledOnText => IsSubsequence(NonTargets(tl_variant, tl_line), tl_out)

\* C10 as amended: the output is the markers around the cleaned text with
\* the whitespace at the ends of the header and at the start of the body
\* trimmed; in the header (the whole text when there is no colon) only the
\* letters, and the digits in the digit variant, are replaced, each by its
\* constant-offset bold codepoint; every other codepoint of the trimmed
\* header, and every codepoint of the trimmed body, is unchanged in place.
C10_NonTargetsPreserved ==
    (TlCalledOnText /\ tl_line # <<>>) =>
        LET s == TlCleaned
            header == IF Contains(s, 58) THEN Trimmed(BeforeFirstColon(s)) ELSE Trimmed(s)
            h == Len(header)
        IN  /\ Len(tl_out) >= h + 4
            /\ IsWrappedBold(tl_variant, header, SubSeq(tl_out, 1, h + 4))
            /\ NonTargets(tl_variant, header) =
                   NonTargets(tl_variant, RemoveAll(SubSeq(tl_out, 4, h + 3),
                                                    (119808..119859) \cup (120782..120791)))
            /\ Contains(s, 58) =>
                   SubSeq(tl_out, h + 5, Len(tl_out)) = <<58, 32>> \o WithoutLeadingSpace(AfterFirstColon(s))
            /\ ~Contains(s, 58) => Len(tl_out) = h + 4

\* a header with a letter, a digit and a bracket, rendered without digits
C10_Witness ==
    /\ TlCalledOnText
    /\ tl_variant = "batch"
    /\ tl_line = <<65, 49, 12305>>
    /\ tl_out = <<9989, 12304, 32, 119808, 49, 12305, 12305>>

(***************************************************************************)
(* Calls of preset_csv_row.                                                *)
(***************************************************************************)
InitCsv ==
    /\ OthersIdle
    /\ TlIdle
    /\ FinIdle
    /\ PtIdle
    /\ csv_pc = "call"
    /\ csv_values \in Rows
    /\ csv_delim \in Delimiters
    /\ csv_neutralize \in BOOLEAN
    /\ csv_strategy \in (IF csv_neutralize THEN Strategies ELSE {"apostrophe"})
    /\ csv_quotechar \in QuoteChars
    /\ csv_defused = <<>>
    /\ csv_safe_vals = <<>>
    /\ csv_out = <<>>

PresetCsvRow ==
    /\ csv_pc = "call"
    /\ csv_defused' = DefusedCells(csv_values, csv_neutralize, csv_strategy)
    /\ csv_safe_vals' = SafeVals(csv_values, csv_neutralize, csv_strategy, csv_quotechar)
    /\ csv_out' = preset_csv_row(csv_values, csv_delim, csv_neutralize, csv_strategy, csv_quotechar)
    /\ csv_pc' = "done"
    /\ UNCHANGED <<csv_values, csv_delim, csv_neutralize, csv_strategy, csv_quotechar>>
    /\ UNCHANGED <<tlVars, finVars, ptVars, wVars, appVars, guiVars>>

NextCsv == PresetCsvRow

SpecCsv == InitCsv /\ [][NextCsv]_vars

(***************************************************************************)
(* Properties of the CSV preset.                                           *)
(***************************************************************************)
IsQuoted(field, q) == Len(field) >= 2 /\ field[1] = q /\ field[Len(field)] = q

\* C2: every cell that contains the configured delimiter is rendered as a
\* field that starts and ends with the quote character.
C2_DelimiterCellQuoted ==
    csv_pc = "done" =>
        \A i \in 1..Len(csv_values) :
            Contains(csv_values[i], csv_delim) => IsQuoted(csv_safe_vals[i], csv_quotechar)

RiskyFirst(cell) == cell # <<>> /\ cell[1] \in {61, 43, 45, 64, 9, 13}

\* C3: with neutralization on, a cell whose first character is risky is
\* defused to one apostrophe or space (per the strategy) followed by the
\* cell, every other cell is unchanged, and no defused cell starts with a
\* risky character.
C3_RiskyCellsDefused ==
    (csv_pc = "done" /\ csv_neutralize) =>
        \A i \in 1..Len(csv_values) :
            LET cell == csv_values[i]
                d == IF csv_strategy = "apostrophe" THEN 39 ELSE 32
            IN  /\ RiskyFirst(cell) => csv_defused[i] = <<d>> \o cell
                /\ ~RiskyFirst(cell) => csv_defused[i] = cell
                /\ ~RiskyFirst(csv_defused[i])

\* a cell starting with CR, defused by a space
C3_Witness ==
    /\ csv_pc = "done"
    /\ csv_neutralize
    /\ csv_strategy = "space"
    /\ csv_values = <<<<13, 61>>>>
    /\ csv_defused = <<<<32, 13, 61>>>>

\* the conditions under which the claim lets a cell be quoted
MayBeQuoted(cell, delim, q) ==
    \/ Contains(cell, delim)
    \/ Contains(cell, q)
    \/ Contains(cell, 10)
    \/ Contains(cell, 13)
    \/ StartsWith(cell, 32)
    \/ EndsWith(cell, 32)

\* C4: a defused cell is wrapped in the quote character (internal quotes
\* doubled) only if it contains the delimiter, the quote character, LF or
\* CR, or has a leading or trailing space; any other cell is emitted
\* unquoted and unchanged.
C4_QuotedOnlyWhenNeeded ==
    csv_pc = "done" =>
        \A i \in 1..Len(csv_values) :
            ~MayBeQuoted(csv_defused[i], csv_delim, csv_quotechar) =>
                csv_safe_vals[i] = csv_defused[i]

(***************************************************************************)
(* Calls of finalize_text_bytes.                                           *)
(***************************************************************************)
InitFinalize ==
    /\ OthersIdle
    /\ TlIdle
    /\ CsvIdle
    /\ PtIdle
    /\ fin_pc = "call"
    /\ fin_arg_text \in Texts
    /\ fin_newline \in Newlines
    /\ fin_bom \in BOOLEAN
    /\ fin_encoding \in Encodings
    /\ fin_text = <<>>
    /\ fin_status = "none"
    /\ fin_data = <<>>

\* the call returns bytes
FinalizeReturns ==
    /\ fin_pc = "call"
    /\ LET r == finalize_text_bytes(fin_arg_text, fin_newline, fin_bom, fin_encoding) IN
       /\ r.status = "ok"
       /\ fin_text' = r.text
       /\ fin_status' = r.status
       /\ fin_data' = r.data
    /\ fin_pc' = "done"
    /\ UNCHANGED <<fin_arg_text, fin_newline, fin_bom, fin_encoding>>
    /\ UNCHANGED <<tlVars, csvVars, ptVars, wVars, appVars, guiVars>>

\* the call raises
FinalizeRaises ==
    /\ fin_pc = "call"
    /\ LET r == finalize_text_bytes(fin_arg_text, fin_newline, fin_bom, fin_encoding) IN
       /\ r.status # "ok"
       /\ fin_text' = r.text
       /\ fin_status' = r.status
       /\ fin_data' = r.data
    /\ fin_pc' = "done"
    /\ UNCHANGED <<fin_arg_text, fin_newline, fin_bom, fin_encoding>>
    /\ UNCHANGED <<tlVars, csvVars, ptVars, wVars, appVars, guiVars>>

NextFinalize == FinalizeReturns \/ FinalizeRaises

SpecFinalize == InitFinalize /\ [][NextFinalize]_vars

(***************************************************************************)
(* Properties of finalize_text_bytes.                                      *)
(***************************************************************************)
\* the line endings of s: each CR LF pair, each lone CR and each lone LF once
RECURSIVE LineEndings(_)
LineEndings(s) ==
    IF s = <<>> THEN 0
    ELSE IF Len(s) >= 2 /\ s[1] = 13 /\ s[2] = 10 THEN 1 + LineEndings(Tail(Tail(s)))
    ELSE IF s[1] = 13 \/ s[1] = 10 THEN 1 + LineEndings(Tail(s))
    ELSE LineEndings(Tail(s))

Count(s, c) == Cardinality({i \in 1..Len(s) : s[i] = c})

\* CR and LF occur in s only as adjacent CR LF pairs
OnlyCRLFPairs(s) ==
    \A i \in 1..Len(s) :
        /\ s[i] = 13 => (i < Len(s) /\ s[i+1] = 10)
        /\ s[i] = 10 => (i > 1 /\ s[i-1] = 13)

FinReturned == fin_pc = "done" /\ fin_status = "ok"

IsNewlineLF_Tail == fin_newline[3] \in {76, 108} /\ fin_newline[4] \in {70, 102}

\* newline is "lf" / "crlf" in any letter case
IsNewlineLF == Len(fin_newline) = 2 /\ fin_newline[1] \in {76, 108} /\ fin_newline[2] \in {70, 102}
IsNewlineCRLF ==
    /\ Len(fin_newline) = 4
    /\ fin_newline[1] \in {67, 99}
    /\ fin_newline[2] \in {82, 114}
    /\ IsNewlineLF_Tail


\* C5: newline=lf leaves no carriage return, newline=crlf leaves CR and LF
\* only as CR LF pairs, and either way the output has as many line breaks
\* as the input has line endings (CR LF, lone CR and lone LF each once);
\* the encoded bytes carry the same line breaks.
C5_NewlinesConvertedOnce ==
    /\ (fin_pc = "done" /\ IsNewlineLF) =>
           /\ fin_status # "ValueError"
           /\ Count(fin_text, 13) = 0
           /\ Count(fin_text, 10) = LineEndings(fin_arg_text)
    /\ (fin_pc = "done" /\ IsNewlineCRLF) =>
           /\ fin_status # "ValueError"
           /\ OnlyCRLFPairs(fin_text)
           /\ Count(fin_text, 10) = LineEndings(fin_arg_text)
    /\ (FinReturned /\ IsNewlineLF) =>
           /\ Count(fin_data, 13) = 0
           /\ Count(fin_data, 10) = LineEndings(fin_arg_text)
    /\ (FinReturned /\ IsNewlineCRLF) =>
           /\ OnlyCRLFPairs(fin_data)
           /\ Count(fin_data, 10) = LineEndings(fin_arg_text)

\* a lone CR followed by a CR LF pair, finalized with crlf
C5_Witness ==
    /\ FinReturned
    /\ fin_newline = NameCRLF
    /\ fin_arg_text = <<13, 13, 10>>
    /\ fin_text = <<13, 10, 13, 10>>

\* C6: bom=true with an encoding that is not a UTF-8 variant is an error
\* and returns no bytes.
C6_BomNeedsUtf8 ==
    (fin_pc = "done" /\ fin_bom /\ Codec(fin_encoding) # "utf-8") =>
        (fin_status # "ok" /\ fin_data = <<>>)

\* bytes.decode("utf-8"): the codepoints, or None for bytes that are not UTF-8
RECURSIVE Utf8Decode(_)
Utf8Decode(b) ==
    LET Cont(i) == i <= Len(b) /\ b[i] \in 128..191
        Rest(n, c, lo) ==
            IF c < lo \/ c \in 55296..57343 \/ c > 1114111 THEN None
            ELSE LET r == Utf8Decode(SubSeq(b, n + 1, Len(b)))
                 IN  IF r = None THEN None ELSE <<c>> \o r
    IN  IF b = <<>> THEN <<>>
        ELSE IF b[1] < 128 THEN Rest(1, b[1], 0)
        ELSE IF b[1] \in 192..223 /\ Cont(2)
             THEN Rest(2, (b[1] - 192) * 64 + (b[2] - 128), 128)
        ELSE IF b[1] \in 224..239 /\ Cont(2) /\ Cont(3)
             THEN Rest(3, (b[1] - 224) * 4096 + (b[2] - 128) * 64 + (b[3] - 128), 2048)
        ELSE IF b[1] \in 240..247 /\ Cont(2) /\ Cont(3) /\ Cont(4)
             THEN Rest(4, (b[1] - 240) * 262144 + (b[2] - 128) * 4096 + (b[3] - 128) * 64 + (b[4] - 128),
                       65536)
        ELSE None

\* C7: for a text without carriage return, the bytes of
\* finalize_text_bytes(text, "lf", bom=False, "utf-8") decode as UTF-8 to text.
C7_Utf8RoundTrip ==
    (/\ fin_pc = "done"
     /\ fin_newline = NameLF
     /\ fin_encoding = <<117, 116, 102, 45, 56>>
     /\ ~fin_bom
     /\ ~Contains(fin_arg_text, 13)) =>
        (fin_status = "ok" /\ Utf8Decode(fin_data) = fin_arg_text)

\* a text with a line feed and codepoints of two and four bytes
C7_Witness ==
    /\ FinReturned
    /\ fin_newline = NameLF
    /\ fin_encoding = <<117, 116, 102, 45, 56>>
    /\ ~fin_bom
    /\ fin_arg_text = <<10, 233, 119808>>
    /\ fin_data = <<10, 195, 169, 240, 157, 144, 128>>

(***************************************************************************)
(* Calls of process_text, one action per statement.                        *)
(***************************************************************************)
InitPipeline ==
    /\ OthersIdle
    /\ TlIdle
    /\ CsvIdle
    /\ FinIdle
    /\ pt_pc = "normalize"
    /\ pt_raw \in Raws
    /\ pt_mode \in Modes \cup {"xml"}
    /\ pt_normalize \in Forms
    /\ pt_replace_smart \in BOOLEAN
    /\ pt_strip_zw \in BOOLEAN
    /\ pt_strip_ctrl \in BOOLEAN
    /\ pt_html_br \in (IF pt_mode = "html" THEN BOOLEAN ELSE {FALSE})
    /\ pt_csv_values \in (IF pt_mode = "csv" THEN {NoValues, <<<<97, 58>>, <<61>>>>} ELSE {NoValues})
    /\ pt_csv_opts = DefaultCsvOpts
    /\ pt_s = <<>>
    /\ pt_zw_count = 0
    /\ pt_ctrl_count = 0
    /\ pt_out = <<>>
    /\ pt_status = "none"
    /\ pt_stages = <<>>

\* s = normalize_text(raw, normalize)
PtNormalize ==
    /\ pt_pc = "normalize"
    /\ pt_s' = normalize_text(pt_raw, pt_normalize)
    /\ pt_stages' = Append(pt_stages, "normalize")
    /\ pt_pc' = "smart"
    /\ UNCHANGED <<ptArgs, pt_zw_count, pt_ctrl_count, pt_out, pt_status>>
    /\ UNCHANGED <<tlVars, csvVars, finVars, wVars, appVars, guiVars>>

\* if replace_smart: s = replace_smart_punct(s)
PtSmartPunct ==
    /\ pt_pc = "smart"
    /\ pt_s' = IF pt_replace_smart THEN replace_smart_punct(pt_s) ELSE pt_s
    /\ pt_pc' = "strip"
    /\ UNCHANGED <<ptArgs, pt_zw_count, pt_ctrl_count, pt_out, pt_status, pt_stages>>
    /\ UNCHANGED <<tlVars, csvVars, finVars, wVars, appVars, guiVars>>

\* if strip_zw or strip_ctrl: s, counts = strip_zero_width_and_controls(s)
PtStrip ==
    /\ pt_pc = "strip"
    /\ IF pt_strip_zw \/ pt_strip_ctrl
       THEN LET r == strip_zero_width_and_controls(pt_s) IN
            /\ pt_s' = r.s
            /\ pt_zw_count' = pt_zw_count + r.zw_removed
            /\ pt_ctrl_count' = pt_ctrl_count + r.ctrl_removed
       ELSE UNCHANGED <<pt_s, pt_zw_count, pt_ctrl_count>>
    /\ pt_stages' = Append(pt_stages, "clean")
    /\ pt_pc' = "preset"
    /\ UNCHANGED <<ptArgs, pt_out, pt_status>>
    /\ UNCHANGED <<tlVars, csvVars, finVars, wVars, appVars, guiVars>>

\* the if/elif chain over mode, a known mode
PtPreset ==
    /\ pt_pc = "preset"
    /\ pt_mode \in Modes
    /\ pt_out' = ApplyPreset(pt_mode, pt_s, pt_html_br, pt_csv_values, pt_csv_opts)
    /\ pt_stages' = Append(pt_stages, "preset")
    /\ pt_pc' = "header_bold"
    /\ UNCHANGED <<ptArgs, pt_s, pt_zw_count, pt_ctrl_count, pt_status>>
    /\ UNCHANGED <<tlVars, csvVars, finVars, wVars, appVars, guiVars>>

\* the else branch: raise ValueError
PtUnknownMode ==
    /\ pt_pc = "preset"
    /\ pt_mode \notin Modes
    /\ pt_status' = "ValueError"
    /\ pt_pc' = "done"
    /\ UNCHANGED <<ptArgs, pt_s, pt_zw_count, pt_ctrl_count, pt_out, pt_stages>>
    /\ UNCHANGED <<tlVars, csvVars, finVars, wVars, appVars, guiVars>>

\* if mode in (...): s = mark_header_bold(s, mode)
PtHeaderBold ==
    /\ pt_pc = "header_bold"
    /\ pt_s' = IF pt_mode \in Modes THEN mark_header_bold(pt_s, pt_mode) ELSE pt_s
    /\ pt_stages' = Append(pt_stages, "header_bold")
    /\ pt_pc' = "return"
    /\ UNCHANGED <<ptArgs, pt_zw_count, pt_ctrl_count, pt_out, pt_status>>
    /\ UNCHANGED <<tlVars, csvVars, finVars, wVars, appVars, guiVars>>

\* return out, meta
PtReturn ==
    /\ pt_pc = "return"
    /\ pt_status' = "ok"
    /\ pt_pc' = "done"
    /\ UNCHANGED <<ptArgs, pt_s, pt_zw_count, pt_ctrl_count, pt_out, pt_stages>>
    /\ UNCHANGED <<tlVars, csvVars, finVars, wVars, appVars, guiVars>>

NextPipeline ==
    \/ PtNormalize
    \/ PtSmartPunct
    \/ PtStrip
    \/ PtPreset
    \/ PtUnknownMode
    \/ PtHeaderBold
    \/ PtReturn

SpecPipeline == InitPipeline /\ [][NextPipeline]_vars

(***************************************************************************)
(* Properties of process_text.                                             *)
(***************************************************************************)
\* the position of stage in the stages run, 0 when it has not run
StageIndex(stage) ==
    IF \E i \in 1..Len(pt_stages) : pt_stages[i] = stage
    THEN CHOOSE i \in 1..Len(pt_stages) : pt_stages[i] = stage
    ELSE 0

\* C1: a single-value call on a text with a colon runs normalize, clean,
\* header-bold, preset in that order, and the text it returns is the preset
\* applied to the output of the header-bold stage.
C1_HeaderBoldBeforePreset ==
    (pt_pc = "done" /\ pt_status = "ok" /\ pt_csv_values = NoValues /\ Contains(pt_s, 58)) =>
        /\ StageIndex("normalize") > 0
        /\ StageIndex("normalize") < StageIndex("clean")
        /\ StageIndex("clean") < StageIndex("header_bold")
        /\ StageIndex("header_bold") < StageIndex("preset")
        /\ pt_out = ApplyPreset(pt_mode, pt_s, pt_html_br, pt_csv_values, pt_csv_opts)

\* C11: a mode outside plain, ascii, html, csv, json is reported as an
\* error, never defaulted to another mode, and the error is raised before
\* any transformation stage has run.
C11_UnknownModeFailsFast ==
    (pt_pc = "done" /\ pt_mode \notin {"plain", "ascii", "html", "csv", "json"}) =>
        /\ pt_status = "ValueError"
        /\ pt_out = <<>>
        /\ pt_stages = <<>>

\* the form names of the enumeration, in upper case: NFC NFD NFKC NFKD NONE
KnownForms == {<<78, 70, 67>>, <<78, 70, 68>>, <<78, 70, 75, 67>>, <<78, 70, 75, 68>>, <<78, 79, 78, 69>>}

IsKnownForm(form) == [i \in 1..Len(form) |-> IF form[i] \in 97..122 THEN form[i] - 32 ELSE form[i]] \in KnownForms

\* C12: a normalization form outside none, NFC, NFD, NFKC, NFKD is rejected
\* as an error; the call never returns a text for it.
C12_UnknownFormRejected ==
    (pt_pc = "done" /\ ~IsKnownForm(pt_normalize)) => pt_status # "ok"

(***************************************************************************)
(* process_text on texts with invisible and control codepoints.            *)
(***************************************************************************)
\* a tab CR BEL NEL ZWSP RLO em-dash
CleanAlphabet == {97, 9, 13, 7, 133, 8203, 8238, 8212}

InitClean ==
    /\ OthersIdle
    /\ TlIdle
    /\ CsvIdle
    /\ FinIdle
    /\ pt_pc = "normalize"
    /\ pt_raw \in SeqsUpTo(CleanAlphabet, MaxRawLen)
    /\ pt_mode \in {"plain", "xml"}
    /\ pt_normalize \in {NameNFKC, <<78, 79, 78, 69>>}
    /\ pt_replace_smart \in BOOLEAN
    /\ pt_strip_zw \in BOOLEAN
    /\ pt_strip_ctrl \in BOOLEAN
    /\ pt_html_br = FALSE
    /\ pt_csv_values = NoValues
    /\ pt_csv_opts = DefaultCsvOpts
    /\ pt_s = <<>>
    /\ pt_zw_count = 0
    /\ pt_ctrl_count = 0
    /\ pt_out = <<>>
    /\ pt_status = "none"
    /\ pt_stages = <<>>

SpecClean == InitClean /\ [][NextPipeline]_vars

\* the zero-width and bidirectional-control codepoints
ZeroWidthBidi == {8203, 8204, 8205, 8288, 65279, 8206, 8207, 8234, 8235, 8236, 8237, 8238,
                  8294, 8295, 8296, 8297}

\* the C0 and C1 control codepoints other than tab, LF and CR
C0C1Controls == ((0..31) \ {9, 10, 13}) \cup (127..159)

\* s without the codepoints of class, the others in order
RECURSIVE Without(_, _)
Without(s, class) ==
    IF s = <<>> THEN <<>>
    ELSE IF Head(s) \in class THEN Without(Tail(s), class)
    ELSE <<Head(s)>> \o Without(Tail(s), class)

CountIn(s, class) == Cardinality({i \in 1..Len(s) : s[i] \in class})

\* the text that enters the stripping statement
PtBeforeStrip ==
    IF pt_replace_smart THEN replace_smart_punct(normalize_text(pt_raw, pt_normalize))
    ELSE normalize_text(pt_raw, pt_normalize)

\* the stripping statement has run and s still holds the cleaned text
PtCleaned == pt_pc \in {"preset", "header_bold"}

\* C13: zero-width/bidi codepoints are removed exactly when strip_zw is
\* on, control codepoints exactly when strip_ctrl is on; the codepoints of
\* a disabled step stay in the text and its removal count is 0.
C13_StripOptionsIndependent ==
    PtCleaned =>
        /\ pt_s = Without(PtBeforeStrip, (IF pt_strip_zw THEN ZeroWidthBidi ELSE {})
                                         \cup (IF pt_strip_ctrl THEN C0C1Controls ELSE {}))
        /\ pt_zw_count = (IF pt_strip_zw THEN CountIn(PtBeforeStrip, ZeroWidthBidi) ELSE 0)
        /\ pt_ctrl_count = (IF pt_strip_ctrl THEN CountIn(PtBeforeStrip, C0C1Controls) ELSE 0)

\* C14: with all cleaning steps on, the cleaned text is the
\* smart-punctuation-substituted text without its zero-width/bidi and
\* C0/C1 control codepoints; tab, LF and CR and every other codepoint stay,
\* in order, and the counts are the numbers of codepoints removed.
C14_CleanRemovesExactly ==
    (PtCleaned /\ pt_replace_smart /\ pt_strip_zw /\ pt_strip_ctrl) =>
        LET b == replace_smart_punct(normalize_text(pt_raw, pt_normalize)) IN
        /\ pt_s = Without(b, ZeroWidthBidi \cup C0C1Controls)
        /\ \A c \in {9, 10, 13} : CountIn(pt_s, {c}) = CountIn(b, {c})
        /\ CountIn(pt_s, ZeroWidthBidi) = 0
        /\ CountIn(pt_s, ((0..31) \cup (127..159)) \ {9, 10, 13}) = 0
        /\ pt_zw_count = CountIn(b, ZeroWidthBidi)
        /\ pt_ctrl_count = CountIn(b, C0C1Controls)

\* a text whose tab stays while its zero-width space and its BEL go
C14_Witness ==
    /\ PtCleaned
    /\ pt_replace_smart /\ pt_strip_zw /\ pt_strip_ctrl
    /\ pt_raw = <<8203, 9, 7>>
    /\ pt_s = <<9>>
    /\ pt_zw_count = 1
    /\ pt_ctrl_count = 1

(***************************************************************************)
(* process_text in html mode.                                              *)
(***************************************************************************)
\* a & < > " ' LF
HtmlAlphabet == {97, 38, 60, 62, 34, 39, 10}

InitHtml ==
    /\ OthersIdle
    /\ TlIdle
    /\ CsvIdle
    /\ FinIdle
    /\ pt_pc = "normalize"
    /\ pt_raw \in SeqsUpTo(HtmlAlphabet, MaxRawLen)
    /\ pt_mode \in {"html", "xml"}
    /\ pt_normalize = NameNFKC
    /\ pt_replace_smart \in BOOLEAN
    /\ pt_strip_zw \in BOOLEAN
    /\ pt_strip_ctrl \in BOOLEAN
    /\ pt_html_br \in (IF pt_mode = "html" THEN BOOLEAN ELSE {FALSE})
    /\ pt_csv_values = NoValues
    /\ pt_csv_opts = DefaultCsvOpts
    /\ pt_s = <<>>
    /\ pt_zw_count = 0
    /\ pt_ctrl_count = 0
    /\ pt_out = <<>>
    /\ pt_status = "none"
    /\ pt_stages = <<>>

SpecHtml == InitHtml /\ [][NextPipeline]_vars

\* pat stands in s at position i
At(s, i, pat) == i + Len(pat) - 1 <= Len(s) /\ SubSeq(s, i, i + Len(pat) - 1) = pat

\* the five entities with the character each stands for: &amp; &lt; &gt; &quot; &#x27;
Entities ==
    { <<<<38, 97, 109, 112, 59>>, 38>>, <<<<38, 108, 116, 59>>, 60>>, <<<<38, 103, 116, 59>>, 62>>,
      <<<<38, 113, 117, 111, 116, 59>>, 34>>, <<<<38, 35, 120, 50, 55, 59>>, 39>> }

\* s read back from left to right, each entity replaced by its character
RECURSIVE HtmlUnescape(_)
HtmlUnescape(s) ==
    IF s = <<>> THEN <<>>
    ELSE IF \E e \in Entities : At(s, 1, e[1])
    THEN LET e == CHOOSE e \in Entities : At(s, 1, e[1])
         IN  <<e[2]>> \o HtmlUnescape(SubSeq(s, Len(e[1]) + 1, Len(s)))
    ELSE <<Head(s)>> \o HtmlUnescape(Tail(s))

\* <br>
BrTag == <<60, 98, 114, 62>>

\* s without its <br> tags
RECURSIVE WithoutBr(_)
WithoutBr(s) ==
    IF s = <<>> THEN <<>>
    ELSE IF At(s, 1, BrTag) THEN WithoutBr(SubSeq(s, 5, Len(s)))
    ELSE <<Head(s)>> \o WithoutBr(Tail(s))

\* the html preset has produced pt_out from the cleaned text pt_s
HtmlDone == pt_pc = "header_bold" /\ pt_mode = "html"

\* C15: html mode escapes & < > " ' as entities. Without br the output has
\* no < > " ' and every & begins an entity, and it reads back as the
\* cleaned text. With br every LF becomes <br> and LF, inserted after the
\* escaping: the < and > of the output are exactly those of the <br> tags,
\* one tag in front of each LF, and the rest is the escaped text.
C15_HtmlEscapes ==
    HtmlDone =>
        /\ \A i \in 1..Len(pt_out) : pt_out[i] \notin {34, 39}
        /\ \A i \in 1..Len(pt_out) : pt_out[i] = 38 => \E e \in Entities : At(pt_out, i, e[1])
        /\ ~pt_html_br =>
              /\ \A i \in 1..Len(pt_out) : pt_out[i] \notin {60, 62}
              /\ HtmlUnescape(pt_out) = pt_s
        /\ pt_html_br =>
              /\ \A i \in 1..Len(pt_out) : pt_out[i] = 60 => At(pt_out, i, BrTag \o <<10>>)
              /\ \A i \in 1..Len(pt_out) : pt_out[i] = 62 => (i > 3 /\ At(pt_out, i - 3, BrTag \o <<10>>))
              /\ \A i \in 1..Len(pt_out) : pt_out[i] = 10 => (i > 4 /\ At(pt_out, i - 4, BrTag))
              /\ CountIn(pt_out, {60}) = CountIn(pt_s, {10})
              /\ HtmlUnescape(WithoutBr(pt_out)) = pt_s

\* a text with <, & and a line feed, with br: the tag is not escaped
C15_Witness ==
    /\ HtmlDone
    /\ pt_html_br
    /\ pt_s = <<60, 38, 10>>
    /\ pt_out = <<38, 108, 116, 59, 38, 97, 109, 112, 59, 60, 98, 114, 62, 10>>

(***************************************************************************)
(* process_text in json mode.                                              *)
(***************************************************************************)
\* a n " \ LF tab BEL DEL
JsonAlphabet == {97, 110, 34, 92, 10, 9, 7, 127}

InitJson ==
    /\ OthersIdle
    /\ TlIdle
    /\ CsvIdle
    /\ FinIdle
    /\ pt_pc = "normalize"
    /\ pt_raw \in SeqsUpTo(JsonAlphabet, MaxRawLen)
    /\ pt_mode \in {"json", "xml"}
    /\ pt_normalize = NameNFKC
    /\ pt_replace_smart \in BOOLEAN
    /\ pt_strip_zw \in BOOLEAN
    /\ pt_strip_ctrl \in BOOLEAN
    /\ pt_html_br = FALSE
    /\ pt_csv_values = NoValues
    /\ pt_csv_opts = DefaultCsvOpts
    /\ pt_s = <<>>
    /\ pt_zw_count = 0
    /\ pt_ctrl_count = 0
    /\ pt_out = <<>>
    /\ pt_status = "none"
    /\ pt_stages = <<>>

SpecJson == InitJson /\ [][NextPipeline]_vars

\* the value of a hexadecimal digit, -1 for any other codepoint
HexVal(c) ==
    IF c \in 48..57 THEN c - 48
    ELSE IF c \in 97..102 THEN c - 87
    ELSE IF c \in 65..70 THEN c - 55
    ELSE -1

\* the character a JSON two-character escape stands for, -1 if there is none
JsonSimpleEscape(c) ==
    CASE c = 34 -> 34
      [] c = 92 -> 92
      [] c = 47 -> 47
      [] c = 98 -> 8
      [] c = 102 -> 12
      [] c = 110 -> 10
      [] c = 114 -> 13
      [] c = 116 -> 9
      [] OTHER -> -1

\* the number of codepoints the JSON string element at the head of s takes,
\* 0 if s does not start with a well-formed element
JsonElementLen(s) ==
    IF s = <<>> THEN 0
    ELSE IF s[1] = 92
    THEN IF Len(s) >= 2 /\ JsonSimpleEscape(s[2]) # -1 THEN 2
         ELSE IF Len(s) >= 6 /\ s[2] = 117 /\ \A k \in 3..6 : HexVal(s[k]) # -1 THEN 6
         ELSE 0
    ELSE IF s[1] = 34 \/ s[1] < 32 THEN 0
    ELSE 1

\* the interior of a JSON string literal is well formed
RECURSIVE JsonValidBody(_)
JsonValidBody(s) ==
    \/ s = <<>>
    \/ /\ JsonElementLen(s) > 0
       /\ JsonValidBody(SubSeq(s, JsonElementLen(s) + 1, Len(s)))

\* the text a well-formed interior stands for
RECURSIVE JsonDecodeBody(_)
JsonDecodeBody(s) ==
    IF s = <<>> \/ JsonElementLen(s) = 0 THEN <<>>
    ELSE LET n == JsonElementLen(s)
             c == IF n = 1 THEN s[1]
                  ELSE IF n = 2 THEN JsonSimpleEscape(s[2])
                  ELSE 4096 * HexVal(s[3]) + 256 * HexVal(s[4]) + 16 * HexVal(s[5]) + HexVal(s[6])
         IN  <<c>> \o JsonDecodeBody(SubSeq(s, n + 1, Len(s)))

\* the json preset has produced pt_out from the cleaned text pt_s
JsonDone == pt_pc = "header_bold" /\ pt_mode = "json"

\* C16: in json mode the output is one string literal: it begins and ends
\* with a double quote, its interior has no raw control character
\* (U+0000..U+001F, line feed, tab and carriage return included), no
\* unescaped double quote and no backslash that does not begin an escape,
\* and it decodes back to the cleaned text.
C16_JsonStringLiteral ==
    JsonDone =>
        /\ Len(pt_out) >= 2
        /\ pt_out[1] = 34
        /\ pt_out[Len(pt_out)] = 34
        /\ LET body == SubSeq(pt_out, 2, Len(pt_out) - 1) IN
           /\ \A i \in 1..Len(body) : body[i] \notin 0..31
           /\ JsonValidBody(body)
           /\ JsonDecodeBody(body) = pt_s

\* a text of a double quote, a backslash and a line feed, each one escaped
C16_Witness ==
    /\ JsonDone
    /\ pt_s = <<34, 92, 10>>
    /\ pt_out = <<34, 92, 34, 92, 92, 92, 110, 34>>

(***************************************************************************)
(* process_text in csv mode with a list of cells.                          *)
(***************************************************************************)
\* ZWSP fullwidth-colon =
ValueAlphabet == {8203, 65306, 61}

\* two cells: one drawn, one a formula sign or a zero-width space
ValueLists == {<<c1, c2>> : c1 \in SeqsUpTo(ValueAlphabet, MaxCellLen), c2 \in {<<61>>, <<8203>>}}

InitCsvValues ==
    /\ OthersIdle
    /\ TlIdle
    /\ CsvIdle
    /\ FinIdle
    /\ pt_pc = "normalize"
    /\ pt_raw \in SeqsUpTo({8203, 7}, MaxRawLen)
    /\ pt_mode \in {"csv", "xml"}
    /\ pt_normalize \in {NameNFKC, <<78, 79, 78, 69>>}
    /\ pt_replace_smart \in BOOLEAN
    /\ pt_strip_zw \in BOOLEAN
    /\ pt_strip_ctrl \in BOOLEAN
    /\ pt_html_br = FALSE
    /\ pt_csv_values \in (IF pt_mode = "csv" THEN ValueLists \cup {NoValues} ELSE {NoValues})
    /\ pt_csv_opts \in {DefaultCsvOpts, [DefaultCsvOpts EXCEPT !.neutralize = FALSE]}
    /\ pt_s = <<>>
    /\ pt_zw_count = 0
    /\ pt_ctrl_count = 0
    /\ pt_out = <<>>
    /\ pt_status = "none"
    /\ pt_stages = <<>>

SpecCsvValues == InitCsvValues /\ [][NextPipeline]_vars

\* process_text has returned a row for an explicit list of cells
CsvValuesReturned ==
    pt_pc = "done" /\ pt_status = "ok" /\ pt_mode = "csv" /\ pt_csv_values # NoValues

\* the codepoints of all cells together
AllCells == Concat(pt_csv_values)

\* C19: in csv mode with an explicit list of cells the returned row is
\* determined by the cells and the CSV options alone, whatever the raw
\* text, the form and the cleaning options: the cells reach the CSV preset
\* as given (their zero-width and compatibility codepoints are still in the
\* row), and the removal counts are those of the raw text.
C19_RowFromCellsOnly ==
    CsvValuesReturned =>
        /\ pt_out = preset_csv_row(pt_csv_values, pt_csv_opts.delim, pt_csv_opts.neutralize,
                                   pt_csv_opts.strategy, pt_csv_opts.quotechar)
        /\ \A c \in {8203, 65306} : CountIn(pt_out, {c}) = CountIn(AllCells, {c})
        /\ pt_zw_count = (IF pt_strip_zw \/ pt_strip_ctrl THEN CountIn(PtBeforeStrip, ZeroWidthBidi) ELSE 0)
        /\ pt_ctrl_count = (IF pt_strip_zw \/ pt_strip_ctrl THEN CountIn(PtBeforeStrip, C0C1Controls) ELSE 0)

\* a cell with a zero-width space is returned with it while the one of the
\* raw text is counted as removed
C19_Witness ==
    /\ CsvValuesReturned
    /\ pt_strip_zw
    /\ pt_raw = <<8203>>
    /\ pt_csv_values = <<<<65306, 8203>>, <<61>>>>
    /\ CountIn(pt_out, {8203}) = 1
    /\ pt_zw_count = 1

(***************************************************************************)
(* The batch CSV write: write_csv of the column processor and the CSV step *)
(* of process_xlsx.  Both open the file "wb" to write the BOM through a    *)
(* buffered handle and open it again "ab" with buffering=0 for a           *)
(* csv.writer; write_csv closes the first handle before it opens the       *)
(* second, process_xlsx opens the second inside the with block of the      *)
(* first.                                                                  *)
(***************************************************************************)
MaxWRows == 2

\* a , "
WCellAlphabet == {97, 44, 34}

\* rows of one cell
WRows == SeqsUpTo({<<c>> : c \in SeqsUpTo(WCellAlphabet, MaxCellLen)}, MaxWRows)

\* "Processed", the header process_xlsx writes, and "H"
WHeaders(variant) ==
    IF variant = "process_xlsx" THEN <<<<80, 114, 111, 99, 101, 115, 115, 101, 100>>>> ELSE <<<<72>>>>

\* one field as csv.writer renders it (QUOTE_MINIMAL, delimiter ",",
\* quotechar '"', lineterminator "\r\n"); None is rendered as ""
CsvWriterField(cell) ==
    IF cell = None THEN <<>>
    ELSE IF \E i \in 1..Len(cell) : cell[i] \in {44, 34, 13, 10}
    THEN <<34>> \o DoubleChar(cell, 34) \o <<34>>
    ELSE cell

\* the str that writerow(row) hands to the write method of the file
CsvWriterRow(row) ==
    LET fields == [i \in 1..Len(row) |-> CsvWriterField(row[i])] IN
    (IF Len(row) = 1 /\ fields[1] = <<>> THEN <<34, 34>> ELSE Join(44, fields)) \o <<13, 10>>

\* FileIO.write(data) on a handle opened in binary mode without buffering:
\* bytes are appended to the file, a str is refused
RawWrite(file, kind, data) ==
    IF kind = "bytes" THEN [status |-> "ok", file |-> file \o data]
    ELSE [status |-> "TypeError", file |-> file]

InitWrite ==
    /\ TlIdle
    /\ CsvIdle
    /\ FinIdle
    /\ PtIdle
    /\ AppIdle
    /\ GuiIdle
    /\ w_pc = "open_wb"
    /\ w_variant \in {"write_csv", "process_xlsx"}
    /\ w_headers = WHeaders(w_variant)
    /\ w_rows \in WRows
    /\ w_i = 0
    /\ w_file \in {<<>>, <<120>>}
    /\ w_buf = <<>>
    /\ w_fbin_open = FALSE
    /\ w_fab_open = FALSE
    /\ w_status = "none"

\* open(path, "wb"): the file is truncated
WOpenWb ==
    /\ w_pc = "open_wb"
    /\ w_file' = <<>>
    /\ w_fbin_open' = TRUE
    /\ w_pc' = "write_bom"
    /\ UNCHANGED <<w_variant, w_headers, w_rows, w_i, w_buf, w_fab_open, w_status>>
    /\ UNCHANGED <<tlVars, csvVars, finVars, ptVars, appVars, guiVars>>

\* fbin.write(BOM): three bytes stay in the buffer of the handle
WWriteBom ==
    /\ w_pc = "write_bom"
    /\ w_buf' = w_buf \o BOM
    /\ w_pc' = (IF w_variant = "write_csv" THEN "close_wb" ELSE "open_ab")
    /\ UNCHANGED <<w_variant, w_headers, w_rows, w_i, w_file, w_fbin_open, w_fab_open, w_status>>
    /\ UNCHANGED <<tlVars, csvVars, finVars, ptVars, appVars, guiVars>>

\* the with block of fbin ends: the buffer is flushed and the handle closed
WCloseWb ==
    /\ w_pc = "close_wb"
    /\ w_file' = w_file \o w_buf
    /\ w_buf' = <<>>
    /\ w_fbin_open' = FALSE
    /\ w_pc' = (IF w_variant = "write_csv" THEN "open_ab" ELSE "done")
    /\ w_status' = (IF w_variant = "process_xlsx" /\ w_status = "none" THEN "ok" ELSE w_status)
    /\ UNCHANGED <<w_variant, w_headers, w_rows, w_i, w_fab_open>>
    /\ UNCHANGED <<tlVars, csvVars, finVars, ptVars, appVars, guiVars>>

\* open(path, "ab", buffering=0) and csv.writer(f, lineterminator="\r\n")
WOpenAb ==
    /\ w_pc = "open_ab"
    /\ w_fab_open' = TRUE
    /\ w_pc' = "writerow"
    /\ UNCHANGED <<w_variant, w_headers, w_rows, w_i, w_file, w_buf, w_fbin_open, w_status>>
    /\ UNCHANGED <<tlVars, csvVars, finVars, ptVars, appVars, guiVars>>

\* writer.writerow: the header row first, then the data rows; the writer
\* passes a str to the write method of the binary handle
WWriterow ==
    /\ w_pc = "writerow"
    /\ LET row == IF w_i = 0 THEN w_headers ELSE w_rows[w_i]
           res == RawWrite(w_file, "str", CsvWriterRow(row))
       IN  /\ w_file' = res.file
           /\ IF res.status = "ok"
              THEN /\ w_i' = w_i + 1
                   /\ w_pc' = (IF w_i = Len(w_rows) THEN "close_ab" ELSE "writerow")
                   /\ w_status' = w_status
              ELSE /\ w_i' = w_i
                   /\ w_pc' = "close_ab"
                   /\ w_status' = res.status
    /\ UNCHANGED <<w_variant, w_headers, w_rows, w_buf, w_fbin_open, w_fab_open>>
    /\ UNCHANGED <<tlVars, csvVars, finVars, ptVars, appVars, guiVars>>

\* the with block of the append handle ends, normally or by the exception
WCloseAb ==
    /\ w_pc = "close_ab"
    /\ w_fab_open' = FALSE
    /\ w_pc' = (IF w_variant = "write_csv" THEN "done" ELSE "close_wb")
    /\ w_status' = (IF w_variant = "write_csv" /\ w_status = "none" THEN "ok" ELSE w_status)
    /\ UNCHANGED <<w_variant, w_headers, w_rows, w_i, w_file, w_buf, w_fbin_open>>
    /\ UNCHANGED <<tlVars, csvVars, finVars, ptVars, appVars, guiVars>>

NextWrite == WOpenWb \/ WWriteBom \/ WCloseWb \/ WOpenAb \/ WWriterow \/ WCloseAb

SpecWrite == InitWrite /\ [][NextWrite]_vars

\* the UTF-8 bytes of the rows of a file, each as csv.writer renders it
RECURSIVE RowsBytes(_)
RowsBytes(rows) ==
    IF rows = <<>> THEN <<>>
    ELSE encode(CsvWriterRow(Head(rows)), NameUTF8).data \o RowsBytes(Tail(rows))

\* C17: when the batch CSV write is over it has not failed and the file is
\* the BOM at offset 0, then the header row, then the data rows in order,
\* each ended by CRLF.
C17_BomThenRows ==
    w_pc = "done" =>
        /\ w_status = "ok"
        /\ w_file = BOM \o RowsBytes(<<w_headers>> \o w_rows)

(***************************************************************************)
(* The column processor window: App of bytecode_gui_batch.py.  Positions   *)
(* in rows and in the listbox are counted from 1 here, from 0 in the       *)
(* source.  Every file opened has its own output path, so nothing has been *)
(* saved for a file that has just been opened.                             *)
(***************************************************************************)
MaxAppCols == 2

MaxAppRows == 2

\* the header of column i: "A", "", "C", ...
AppHeader(i) == IF i = 2 THEN <<>> ELSE <<64 + i>>

\* the cells of a CSV file are strings; a sheet also has empty cells (None)
AppCells(kind) == IF kind = "csv" THEN {<<>>, <<97, 58>>} ELSE {None, <<97, 58>>}

\* csv.reader gives each row the length of its line; read_xlsx gives every
\* row max_column cells
AppRowsOf(kind, ncols) ==
    IF kind = "csv" THEN SeqsUpTo(SeqsUpTo(AppCells(kind), MaxAppCols), MaxAppRows)
    ELSE SeqsUpTo([1..ncols -> AppCells(kind)], MaxAppRows)

\* "_Processed"
SuffixProcessed == <<95, 80, 114, 111, 99, 101, 115, 115, 101, 100>>

\* "Column"
NameColumn == <<67, 111, 108, 117, 109, 110>>

\* the positions of a set in increasing order
RECURSIVE SortedSeq(_)
SortedSeq(S) ==
    IF S = {} THEN <<>>
    ELSE LET m == CHOOSE x \in S : \A y \in S : x <= y IN <<m>> \o SortedSeq(S \ {m})

get_selected_indices(selection, headers) ==
    IF selection = {} THEN SortedSeq(1..Len(headers)) ELSE SortedSeq(selection)

\* base of the name of the processed column for the column at position c
ProcessedBase(headers, c) ==
    IF headers[c] = None \/ headers[c] = <<>> THEN NameColumn \o <<48 + c>> ELSE headers[c]

\* new_headers of process_and_save
NewHeaders(headers, idxs) ==
    headers \o [k \in 1..Len(idxs) |-> ProcessedBase(headers, idxs[k]) \o SuffixProcessed]

\* row_out of process_and_save for one row: the row as it is, then one
\* value per selected column
RowOut(r, idxs) ==
    r \o [k \in 1..Len(idxs) |->
             transform_line("gui_batch", IF idxs[k] <= Len(r) THEN r[idxs[k]] ELSE <<>>)]

NewRows(rows, idxs) == [i \in 1..Len(rows) |-> RowOut(rows[i], idxs)]

\* the rows handed to csv.writer one after the other
RECURSIVE WriteRows(_, _)
WriteRows(file, rows) ==
    IF rows = <<>> THEN [status |-> "ok", file |-> file]
    ELSE LET res == RawWrite(file, "str", CsvWriterRow(Head(rows)))
         IN  IF res.status = "ok" THEN WriteRows(res.file, Tail(rows)) ELSE res

\* write_csv: the status and the bytes of the file it leaves
write_csv(headers, rows) == WriteRows(BOM, <<headers>> \o rows)

InitApp ==
    /\ TlIdle
    /\ CsvIdle
    /\ FinIdle
    /\ PtIdle
    /\ WIdle
    /\ GuiIdle
    /\ AppIdle

\* open_file with a .csv or .xlsx chosen; populate_listbox selects all
AppOpenFile ==
    /\ \E kind \in {"csv", "xlsx"}, ncols \in 1..MaxAppCols :
         /\ app_file_path' = kind
         /\ app_headers' = [i \in 1..ncols |-> AppHeader(i)]
         /\ app_rows' \in AppRowsOf(kind, ncols)
         /\ app_selection' = 1..ncols
    /\ app_new_headers' = <<>>
    /\ app_new_rows' = <<>>
    /\ app_msg' = "none"
    /\ app_out' = [kind |-> "none"]
    /\ UNCHANGED <<tlVars, csvVars, finVars, ptVars, wVars, guiVars>>

AppSelectAll ==
    /\ app_selection' = 1..Len(app_headers)
    /\ app_new_headers' = <<>>
    /\ app_new_rows' = <<>>
    /\ app_msg' = "none"
    /\ UNCHANGED <<app_file_path, app_headers, app_rows, app_out>>
    /\ UNCHANGED <<tlVars, csvVars, finVars, ptVars, wVars, guiVars>>

AppDeselectAll ==
    /\ app_selection' = {}
    /\ app_new_headers' = <<>>
    /\ app_new_rows' = <<>>
    /\ app_msg' = "none"
    /\ UNCHANGED <<app_file_path, app_headers, app_rows, app_out>>
    /\ UNCHANGED <<tlVars, csvVars, finVars, ptVars, wVars, guiVars>>

\* a click on one line of the listbox (selectmode MULTIPLE)
AppToggle ==
    /\ \E c \in 1..Len(app_headers) :
         app_selection' = (IF c \in app_selection THEN app_selection \ {c} ELSE app_selection \cup {c})
    /\ app_new_headers' = <<>>
    /\ app_new_rows' = <<>>
    /\ app_msg' = "none"
    /\ UNCHANGED <<app_file_path, app_headers, app_rows, app_out>>
    /\ UNCHANGED <<tlVars, csvVars, finVars, ptVars, wVars, guiVars>>

\* process_and_save; chosen says whether the save dialog returned a path
AppProcessAndSave ==
    /\ IF app_file_path = "none"
       THEN /\ app_msg' = "No file"
            /\ UNCHANGED <<app_new_headers, app_new_rows, app_out>>
       ELSE LET idxs == get_selected_indices(app_selection, app_headers)
                new_headers == NewHeaders(app_headers, idxs)
                new_rows == NewRows(app_rows, idxs)
            IN  /\ app_new_headers' = new_headers
                /\ app_new_rows' = new_rows
                /\ \E chosen \in BOOLEAN :
                     IF ~chosen
                     THEN app_msg' = "none" /\ app_out' = app_out
                     ELSE IF app_file_path = "csv"
                     THEN LET res == write_csv(new_headers, new_rows) IN
                          /\ app_out' = [kind |-> "csv", bytes |-> res.file]
                          /\ app_msg' = (IF res.status = "ok" THEN "Saved" ELSE "Save error")
                     ELSE /\ app_out' = [kind |-> "xlsx", headers |-> new_headers, rows |-> new_rows]
                          /\ app_msg' = "Saved"
    /\ UNCHANGED <<app_file_path, app_headers, app_rows, app_selection>>
    /\ UNCHANGED <<tlVars, csvVars, finVars, ptVars, wVars, guiVars>>

NextApp == AppOpenFile \/ AppSelectAll \/ AppDeselectAll \/ AppToggle \/ AppProcessAndSave

SpecApp == InitApp /\ [][NextApp]_vars

\* process_and_save has just built its rows for the file that is open
AppProcessed == app_file_path # "none" /\ app_new_headers # <<>>

\* C18: after process_and_save, for every data row, shorter rows included,
\* and every selected column c: the original cells are where they were, the
\* value at the position of the header appended for c is transform_line of
\* the row's cell c, and the row is as long as the new header row.
C18_ProcessedAligned ==
    AppProcessed =>
        LET idxs == get_selected_indices(app_selection, app_headers) IN
        \A i \in 1..Len(app_rows) :
            LET r == app_rows[i]
                out == app_new_rows[i]
            IN  /\ Len(out) = Len(app_new_headers)
                /\ \A j \in 1..Len(r) : j <= Len(app_headers) => out[j] = r[j]
                /\ \A k \in 1..Len(idxs) :
                       /\ Len(app_headers) + k <= Len(out)
                       /\ out[Len(app_headers) + k] =
                              transform_line("gui_batch", IF idxs[k] <= Len(r) THEN r[idxs[k]] ELSE <<>>)

(***************************************************************************)
(* The generator window: BytecodeGUI of bytecode_generator_gui.py.  A      *)
(* SHA-256 digest is identified with the bytes digested.  The Normalize    *)
(* and Excel Neutralize options stay as the window sets them at start.     *)
(***************************************************************************)
MaxGuiLen == 1

\* LF and a lone surrogate, which UTF-8 cannot encode
GuiAlphabet == {10, 55357}

GuiInputs == SeqsUpTo(GuiAlphabet, MaxGuiLen)

\* two of the values of cmb_mode
GuiModes == {"plain", "csv"}

\* process_text with the arguments the window passes, the others at their
\* defaults: replace_smart, strip_zw and strip_ctrl on, no csv_values
process_text(raw, mode, norm, neutralize) ==
    LET s == strip_zero_width_and_controls(replace_smart_punct(normalize_text(raw, norm))).s
    IN  ApplyPreset(mode, s, FALSE, NoValues, [DefaultCsvOpts EXCEPT !.neutralize = neutralize])

\* the length shown without the BOM
MetaLen_NoBom(data) ==
    IF Len(data) >= 3 /\ SubSeq(data, 1, 3) = BOM THEN Len(data) - 3 ELSE Len(data)

\* the number shown after "Bytes:"
MetaLen(data) == Len(data)

InitGui ==
    /\ TlIdle
    /\ CsvIdle
    /\ FinIdle
    /\ PtIdle
    /\ WIdle
    /\ AppIdle
    /\ GuiIdle

GuiSame == <<g_has_last, g_last_bytes, g_last_text, g_output, g_meta_len, g_meta_sha, g_file>>

\* the user edits txt_input
GSetInput ==
    /\ \E v \in GuiInputs \ {g_input} : g_input' = v
    /\ g_handler' = "option"
    /\ g_msg' = "none"
    /\ UNCHANGED <<g_mode, g_norm, g_bom, g_neutralize, g_newline, GuiSame>>
    /\ UNCHANGED <<tlVars, csvVars, finVars, ptVars, wVars, appVars>>

GSetMode ==
    /\ \E v \in GuiModes \ {g_mode} : g_mode' = v
    /\ g_handler' = "option"
    /\ g_msg' = "none"
    /\ UNCHANGED <<g_input, g_norm, g_bom, g_neutralize, g_newline, GuiSame>>
    /\ UNCHANGED <<tlVars, csvVars, finVars, ptVars, wVars, appVars>>

GToggleBom ==
    /\ g_bom' = ~g_bom
    /\ g_handler' = "option"
    /\ g_msg' = "none"
    /\ UNCHANGED <<g_input, g_mode, g_norm, g_neutralize, g_newline, GuiSame>>
    /\ UNCHANGED <<tlVars, csvVars, finVars, ptVars, wVars, appVars>>

GSetNewline ==
    /\ \E v \in {NameLF, NameCRLF} \ {g_newline} : g_newline' = v
    /\ g_handler' = "option"
    /\ g_msg' = "none"
    /\ UNCHANGED <<g_input, g_mode, g_norm, g_bom, g_neutralize, GuiSame>>
    /\ UNCHANGED <<tlVars, csvVars, finVars, ptVars, wVars, appVars>>

\* process: an exception of finalize_text_bytes ends the handler before
\* anything is displayed or kept
GProcess ==
    /\ LET norm == IF g_norm = <<110, 111, 110, 101>> THEN <<78, 79, 78, 69>> ELSE g_norm
           out_text == process_text(g_input, g_mode, norm, g_neutralize)
           fin == finalize_text_bytes(out_text, g_newline, g_bom, <<117, 116, 102, 45, 56>>)
       IN  IF fin.status = "ok"
           THEN /\ g_output' = out_text
                /\ g_meta_len' = MetaLen(fin.data)
                /\ g_meta_sha' = fin.data
                /\ g_last_bytes' = fin.data
                /\ g_last_text' = out_text
                /\ g_has_last' = TRUE
           ELSE UNCHANGED <<g_output, g_meta_len, g_meta_sha, g_last_bytes, g_last_text, g_has_last>>
    /\ g_handler' = "process"
    /\ g_msg' = "none"
    /\ UNCHANGED <<guiOpts, g_file>>
    /\ UNCHANGED <<tlVars, csvVars, finVars, ptVars, wVars, appVars>>

\* export_file; chosen says whether the save dialog returned a path
GExport ==
    /\ IF ~g_has_last
       THEN g_msg' = "Error" /\ g_file' = g_file
       ELSE \E chosen \in BOOLEAN :
              IF chosen
              THEN g_file' = [written |-> TRUE, bytes |-> g_last_bytes] /\ g_msg' = "Saved"
              ELSE g_file' = g_file /\ g_msg' = "none"
    /\ g_handler' = "export"
    /\ UNCHANGED <<guiOpts, g_has_last, g_last_bytes, g_last_text, g_output, g_meta_len, g_meta_sha>>
    /\ UNCHANGED <<tlVars, csvVars, finVars, ptVars, wVars, appVars>>

NextGui ==
    GSetInput \/ GSetMode \/ GToggleBom \/ GSetNewline \/ GProcess \/ GExport

SpecGui == InitGui /\ [][NextGui]_vars

\* the bytes the options now set would give
GuiCurrentBytes ==
    finalize_text_bytes(process_text(g_input, g_mode,
                                     IF g_norm = <<110, 111, 110, 101>> THEN <<78, 79, 78, 69>> ELSE g_norm,
                                     g_neutralize),
                        g_newline, g_bom, <<117, 116, 102, 45, 56>>)

\* C20: Export before the first successful Process shows an error and
\* writes nothing; an Export that writes leaves in the file the bytes kept
\* by the most recent successful Process, which are the bytes whose length
\* and digest are displayed, whatever the options are now.
C20_ExportWritesProcessed ==
    /\ ~g_has_last => ~g_file.written
    /\ (g_handler = "export" /\ ~g_has_last) => g_msg = "Error"
    /\ g_msg = "Error" => (g_handler = "export" /\ ~g_has_last)
    /\ g_has_last => (g_meta_len = Len(g_last_bytes) /\ g_meta_sha = g_last_bytes)
    /\ (g_handler = "export" /\ g_msg = "Saved") =>
           /\ g_has_last
           /\ g_file = [written |-> TRUE, bytes |-> g_last_bytes]
           /\ Len(g_file.bytes) = g_meta_len
           /\ g_file.bytes = g_meta_sha

\* an export after the mode, newline and BOM options were changed: the
\* file has the line feed of the Process before, not the BOM, quotes and
\* CRLF the options now set would give
C20_Witness ==
    /\ g_handler = "export"
    /\ g_msg = "Saved"
    /\ g_bom
    /\ g_mode = "csv"
    /\ g_newline = NameCRLF
    /\ g_input = <<10>>
    /\ GuiCurrentBytes.data = BOM \o <<34, 13, 10, 34>>
    /\ g_file.bytes = <<10>>

====
